---- MODULE Spec2Model ----
(***************************************************************************)
(* Model of api/products.js: the serverless handler that pages through the *)
(* Shopify Storefront API, computes each product's maximum discount, and   *)
(* returns the top `limit` discounted products.                            *)
(*                                                                         *)
(* Conventions                                                             *)
(*   - A JavaScript string that the code parses (a query parameter, a      *)
(*     money amount) is a sequence of characters, each a one-character     *)
(*     string; a character that has no TLA+ escape is named by its code    *)
(*     point ("U+00A0").  A missing value of that kind is Absent.          *)
(*   - A string the code assembles (an error message) is the sequence of   *)
(*     the parts it is concatenated from.                                  *)
(*   - Opaque strings (collection handle, search term) are TLA+ strings;   *)
(*     a missing one is Undefined and a null one is Null.                  *)
(*   - A JavaScript number is a double: NaN (the empty tuple), an infinity *)
(*     <<sign, "Infinity">>, or <<sign, m, e>>, the value sign * m * 2^e   *)
(*     with m a natural number of at most 53 bits, odd or zero.  The       *)
(*     clamped limit and factor, integers between 1 and 250, are held as   *)
(*     NaN or <<n>>.                                                       *)
(*   - A null object in an upstream JSON body is a field left out.         *)
(***************************************************************************)
EXTENDS Integers, Sequences, FiniteSets

VARIABLES
    pc,         \* the await at which the invocation is suspended
    method,     \* req.method of the request being handled
    collection, \* `collection || null`: what the handler passes on and reports
    query,      \* `query || null`: what the handler passes on and reports
    limit,      \* handler local `limit`
    factor,     \* handler local `factor`
    out,        \* collectCandidates local `out`
    hasNext,    \* collectCandidates local `hasNext`
    cursor,     \* collectCandidates local `cursor`
    pending,    \* what the await at pc will deliver: a response, json.data, an Error
    inflight,   \* fetches issued and not yet settled (set of fetch numbers)
    sent,       \* the cursor variable of every fetch issued, in order
    returned,   \* the pageInfo of every page the upstream returned, in order
    served,     \* every node the upstream returned, in order
    last,       \* how the most recent call of gqlFetch ended
    response,   \* what the handler wrote to res
    configured, \* whether STORE_DOMAIN and TOKEN are set in the environment
    arg,        \* argument of the pure function under test
    ret         \* its result

vars == <<pc, configured, method, collection, query, limit, factor, out, hasNext, cursor,
          pending, inflight, sent, returned, served, last, response, arg, ret>>

handlerVars == <<method, collection, query, limit, factor, out, hasNext,
                 cursor, pending, inflight, sent, returned, served, last, response>>

(***************************************************************************)
(* Bounds of the model.                                                    *)
(***************************************************************************)
MaxPages == 2
MaxPageSize == 2
MaxParamLen == 3
MaxVariants == 2

(***************************************************************************)
(* JavaScript values.                                                      *)
(***************************************************************************)
Undefined == "undefined"
Null == "null"
Absent == <<Undefined>>
NaN == <<>>

IsNaN(x) == Len(x) = 0
Val(x) == x[1]
Int1(n) == <<n>>

Min(a, b) == IF a <= b THEN a ELSE b
Max(a, b) == IF a >= b THEN a ELSE b

\* `v || d` for a parsed string: undefined and "" are falsy.
OrDefault(v, d) == IF v = Absent \/ v = <<>> THEN d ELSE v

\* `v || null` for an opaque string.
OrNull(v) == IF v = Undefined \/ v = "" THEN Null ELSE v

Truthy(v) == v # Undefined /\ v # "" /\ v # Null

(***************************************************************************)
(* Natural numbers of any size, for the 53-bit arithmetic of doubles: the  *)
(* digits in base 2^15, least significant first, no leading zero digit.    *)
(***************************************************************************)
LimbBits == 15
Base == 32768

\* The largest element of a non-empty set of integers, and the smallest.
Largest(S) == CHOOSE x \in S : \A y \in S : y <= x
Smallest(S) == CHOOSE x \in S : \A y \in S : x <= y

\* a without its leading zero digits.
Trim(a) == SubSeq(a, 1, Largest({0} \cup {i \in DOMAIN a : a[i] # 0}))

RECURSIVE BigOf(_)
\* The integer n >= 0.
BigOf(n) == IF n = 0 THEN <<>> ELSE <<n % Base>> \o BigOf(n \div Base)

RECURSIVE ToInt(_)
\* a as an integer, for a below 2^31.
ToInt(a) == IF a = <<>> THEN 0 ELSE a[1] + Base * ToInt(Tail(a))

\* Digit i of a, 0 beyond its length.
Limb(a, i) == IF i \in DOMAIN a THEN a[i] ELSE 0

\* -1, 0 or 1 as a is less than, equal to or greater than b: by length,
\* then by the most significant digit in which they differ.
BigCmp(a, b) ==
    LET diff == {i \in DOMAIN a : a[i] # Limb(b, i)}
    IN  IF Len(a) # Len(b) THEN (IF Len(a) > Len(b) THEN 1 ELSE -1)
        ELSE IF diff = {} THEN 0
        ELSE IF a[Largest(diff)] > b[Largest(diff)] THEN 1 ELSE -1

\* a + b.  A carry enters digit i when a digit below it overflows and every
\* digit between the two is full.
BigAdd(a, b) ==
    LET sum(i) == Limb(a, i) + Limb(b, i)
        carry(i) == IF \E j \in 1..(i - 1) :
                          /\ sum(j) >= Base
                          /\ \A m \in (j + 1)..(i - 1) : sum(m) = Base - 1
                    THEN 1 ELSE 0
    IN  Trim([i \in 1..(Max(Len(a), Len(b)) + 1) |-> (sum(i) + carry(i)) % Base])

\* a - b, for a >= b.  A borrow leaves digit i when a digit below it falls
\* short and every digit between the two is level.
BigSub(a, b) ==
    LET diff(i) == a[i] - Limb(b, i)
        borrow(i) == IF \E j \in 1..(i - 1) :
                           /\ diff(j) < 0
                           /\ \A m \in (j + 1)..(i - 1) : diff(m) = 0
                     THEN 1 ELSE 0
    IN  Trim([i \in 1..Len(a) |-> (diff(i) - borrow(i) + Base) % Base])

\* a * k for an integer 0 <= k < Base: the low halves of the digit products
\* plus their high halves one digit up.
BigMul(a, k) ==
    BigAdd([i \in 1..Len(a) |-> (a[i] * k) % Base],
           [i \in 1..(Len(a) + 1) |-> IF i = 1 THEN 0 ELSE (a[i - 1] * k) \div Base])

RECURSIVE IntBitLen(_)
IntBitLen(n) == IF n = 0 THEN 0 ELSE 1 + IntBitLen(n \div 2)

\* The number of bits of a.
BitLen(a) == IF a = <<>> THEN 0 ELSE LimbBits * (Len(a) - 1) + IntBitLen(a[Len(a)])

\* a * 2^k
Shl(a, k) ==
    LET q == k \div LimbBits
        r == k % LimbBits
        hi == 2 ^ (LimbBits - r)
    IN  Trim([j \in 1..(IF a = <<>> THEN 0 ELSE Len(a) + q + 1) |->
                IF j <= q THEN 0
                ELSE (Limb(a, j - q) % hi) * (2 ^ r) + (Limb(a, j - q - 1) \div hi)])

\* floor(a / 2^k)
Shr(a, k) ==
    LET q == k \div LimbBits
        r == k % LimbBits
        lo == 2 ^ r
    IN  Trim([j \in 1..(Len(a) - q) |->
                (a[j + q] \div lo) + (Limb(a, j + q + 1) % lo) * (2 ^ (LimbBits - r))])

\* Bit i of a (bit 0 is the least significant).
Bit(a, i) == (Limb(a, (i \div LimbBits) + 1) \div (2 ^ (i % LimbBits))) % 2

\* Whether one of the k low bits of a is set.
LowNonZero(a, k) == Shl(Shr(a, k), k) # a

RECURSIVE IntTrailingZeros(_)
IntTrailingZeros(n) == IF n % 2 = 1 THEN 0 ELSE 1 + IntTrailingZeros(n \div 2)

\* The number of zero bits below the lowest set bit of a # 0.
TrailingZeros(a) ==
    LET z == Smallest({i \in DOMAIN a : a[i] # 0}) - 1
    IN  LimbBits * z + IntTrailingZeros(a[z + 1])

RECURSIVE MulPow10(_, _)
\* a * 10^k, four decimal places a step while that many are left.
MulPow10(a, k) ==
    IF k = 0 \/ a = <<>> THEN a
    ELSE IF k >= 4 THEN MulPow10(BigMul(a, 10000), k - 4)
    ELSE MulPow10(BigMul(a, 10), k - 1)

(***************************************************************************)
(* Doubles (IEEE 754 binary64, round to nearest, ties to even): NaN, an    *)
(* infinity <<sign, "Infinity">>, or <<sign, m, e>>, the value             *)
(* sign * m * 2^e with m odd or zero (then e = 0), m < 2^53,               *)
(* e >= -1074 and m * 2^e < 2^1024.                                        *)
(***************************************************************************)
Precision == 53
MaxExponent == 1024
MinExponent == -1074

Infinity(s) == <<s, "Infinity">>
IsInfinite(x) == Len(x) = 2
IsFinite(x) == Len(x) = 3

\* sign * m * 2^e in its one representation.
Canon(s, m, e) ==
    IF m = <<>> THEN <<s, <<>>, 0>>
    ELSE LET z == TrailingZeros(m) IN <<s, Shr(m, z), e + z>>

\* The double sign * m * 2^e, m already rounded: an infinity when it is
\* beyond the largest double.
Rounded(s, m, e) ==
    IF BitLen(m) + e > MaxExponent THEN Infinity(s) ELSE Canon(s, m, e)

\* The double nearest to sign * (n + d) * 2^e, where 0 <= d < 1 and d > 0
\* iff sticky (sticky only with n of more than Precision + 1 bits).  The
\* k low bits of n are rounded away: those beyond the precision, and those
\* below the smallest subnormal.
RoundDouble(s, n, e, sticky) ==
    LET k == Max(BitLen(n) - Precision, MinExponent - e)
    IN  IF k <= 0 THEN Rounded(s, n, e)
        ELSE LET q == Shr(n, k)
                 half == Bit(n, k - 1) = 1
                 rest == sticky \/ LowNonZero(n, k - 1)
                 up == half /\ (rest \/ Bit(q, 0) = 1)
             IN  Rounded(s, IF up THEN BigAdd(q, <<1>>) ELSE q, e + k)

RECURSIVE DivLoop(_, _, _)
\* Long division, one quotient bit a step: rq = <<remainder, quotient>>.
\* After the last step: <<quotient, whether a remainder is left>>.
DivLoop(rq, d, i) ==
    IF i = 0 THEN <<rq[2], rq[1] # <<>>>>
    ELSE IF BigCmp(rq[1], d) >= 0
         THEN DivLoop(<<Shl(BigSub(rq[1], d), 1), BigAdd(Shl(rq[2], 1), <<1>>)>>, d, i - 1)
         ELSE DivLoop(<<Shl(rq[1], 1), Shl(rq[2], 1)>>, d, i - 1)

QuotientBits == 56

\* The double nearest to sign * (n / d) * 2^e, n # 0, d # 0: n and d are
\* brought to the same bit length, then QuotientBits bits of the quotient
\* are taken.
Divide(s, n, d, e) ==
    LET a == BitLen(n)
        b == BitLen(d)
        n0 == IF b > a THEN Shl(n, b - a) ELSE n
        d0 == IF a > b THEN Shl(d, a - b) ELSE d
        t == DivLoop(<<n0, <<>>>>, d0, QuotientBits)
    IN  RoundDouble(s, t[1], e + a - b - (QuotientBits - 1), t[2])

\* -1, 0 or 1: the sign of x, x not NaN.
Sgn(x) == IF IsInfinite(x) THEN x[1] ELSE IF x[2] = <<>> THEN 0 ELSE x[1]

\* |x| against |y|, both finite and non-zero: -1, 0 or 1.
MagCmp(x, y) ==
    LET tx == BitLen(x[2]) + x[3]
        ty == BitLen(y[2]) + y[3]
        e == Min(x[3], y[3])
    IN  IF tx # ty THEN (IF tx > ty THEN 1 ELSE -1)
        ELSE BigCmp(Shl(x[2], x[3] - e), Shl(y[2], y[3] - e))

\* x against y, neither NaN: -1, 0 or 1.
Cmp(x, y) ==
    IF Sgn(x) # Sgn(y) THEN (IF Sgn(x) > Sgn(y) THEN 1 ELSE -1)
    ELSE IF Sgn(x) = 0 THEN 0
    ELSE IF IsInfinite(x) /\ IsInfinite(y) THEN 0
    ELSE IF IsInfinite(x) THEN Sgn(x)
    ELSE IF IsInfinite(y) THEN -Sgn(x)
    ELSE Sgn(x) * MagCmp(x, y)

\* x > y; false when either is NaN.
Gt(x, y) == ~IsNaN(x) /\ ~IsNaN(y) /\ Cmp(x, y) = 1

Zero == <<1, <<>>, 0>>

\* The double of the integer n.
FromInt(n) == IF n < 0 THEN Canon(-1, BigOf(-n), 0) ELSE Canon(1, BigOf(n), 0)

\* x - y
Minus(x, y) ==
    IF IsNaN(x) \/ IsNaN(y) THEN NaN
    ELSE IF IsInfinite(x) THEN (IF IsInfinite(y) /\ y[1] = x[1] THEN NaN ELSE x)
    ELSE IF IsInfinite(y) THEN Infinity(-y[1])
    ELSE LET e == Min(x[3], y[3])
             a == Shl(x[2], x[3] - e)
             b == Shl(y[2], y[3] - e)
         IN  IF x[1] # y[1] THEN RoundDouble(x[1], BigAdd(a, b), e, FALSE)
             ELSE IF BigCmp(a, b) = 0 THEN Zero
             ELSE IF BigCmp(a, b) > 0 THEN RoundDouble(x[1], BigSub(a, b), e, FALSE)
             ELSE RoundDouble(-x[1], BigSub(b, a), e, FALSE)

\* x / y
Over(x, y) ==
    IF IsNaN(x) \/ IsNaN(y) THEN NaN
    ELSE IF IsInfinite(x)
         THEN (IF IsInfinite(y) THEN NaN ELSE Infinity(x[1] * y[1]))
    ELSE IF IsInfinite(y) THEN <<x[1] * y[1], <<>>, 0>>
    ELSE IF y[2] = <<>>
         THEN (IF x[2] = <<>> THEN NaN ELSE Infinity(x[1] * y[1]))
    ELSE IF x[2] = <<>> THEN <<x[1] * y[1], <<>>, 0>>
    ELSE Divide(x[1] * y[1], x[2], y[2], x[3] - y[3])

\* x * k for a small integer k > 0
Times(x, k) ==
    IF ~IsFinite(x) THEN x ELSE RoundDouble(x[1], BigMul(x[2], k), x[3], FALSE)

\* Math.round(x): the nearest integer, halves toward +Infinity.
MathRound(x) ==
    IF ~IsFinite(x) \/ x[3] >= 0 THEN x
    ELSE LET ip == Shr(x[2], -x[3])
             half == Bit(x[2], -x[3] - 1) = 1
             more == LowNonZero(x[2], -x[3] - 1)
             up == IF x[1] > 0 THEN half ELSE half /\ more
         IN  Canon(x[1], IF up THEN BigAdd(ip, <<1>>) ELSE ip, 0)

\* Math.max(x, c) and Math.min(x, c) for an integer constant c: NaN when x is.
MathMax(x, c) == IF IsNaN(x) THEN NaN ELSE IF Gt(FromInt(c), x) THEN FromInt(c) ELSE x
MathMin(x, c) == IF IsNaN(x) THEN NaN ELSE IF Gt(x, FromInt(c)) THEN FromInt(c) ELSE x

\* A double that is a small integer (or NaN), as <<n>> (or NaN).
IntegerOf(x) == IF IsNaN(x) THEN NaN ELSE Int1(x[1] * ToInt(Shl(x[2], x[3])))

(***************************************************************************)
(* parseInt and parseFloat.                                                *)
(***************************************************************************)
DigitChars == {"0", "1", "2", "3", "4", "5", "6", "7", "8", "9"}

DigitValue ==
    [c \in DigitChars |->
        CASE c = "0" -> 0 [] c = "1" -> 1 [] c = "2" -> 2 [] c = "3" -> 3
          [] c = "4" -> 4 [] c = "5" -> 5 [] c = "6" -> 6 [] c = "7" -> 7
          [] c = "8" -> 8 [] c = "9" -> 9]

\* StrWhiteSpaceChar: the white space and line terminator characters that
\* parseInt and parseFloat skip at the start of a string.
WhiteSpaceChars ==
    {" ", "\t", "\n", "\r", "\f", "U+000B", "U+00A0", "U+1680", "U+2000",
     "U+2001", "U+2002", "U+2003", "U+2004", "U+2005", "U+2006", "U+2007",
     "U+2008", "U+2009", "U+200A", "U+2028", "U+2029", "U+202F", "U+205F",
     "U+3000", "U+FEFF"}

\* The first index from i on at which s holds no character of C (one past
\* the end when it holds them to the end).
RunEnd(s, i, C) ==
    IF i > Len(s) THEN i
    ELSE Smallest({k \in i..(Len(s) + 1) : k > Len(s) \/ s[k] \notin C})

\* The first index from i on that holds no white space.
SkipSpaces(s, i) == RunEnd(s, i, WhiteSpaceChars)

\* The index just past the run of decimal digits that starts at i.
DigitsEnd(s, i) == RunEnd(s, i, DigitChars)

\* The index past an optional sign at i, and the sign's value.
PastSign(s, i) == IF i <= Len(s) /\ s[i] \in {"-", "+"} THEN i + 1 ELSE i
SignAt(s, i) == IF i <= Len(s) /\ s[i] = "-" THEN -1 ELSE 1

RECURSIVE BigDigits(_, _, _)
\* The value of the decimal digits s[i..j-1]: the digits of the first half,
\* moved up by the length of the second half, plus those of the second.
BigDigits(s, i, j) ==
    IF i >= j THEN <<>>
    ELSE IF j = i + 1 THEN BigOf(DigitValue[s[i]])
    ELSE LET mid == (i + j) \div 2
         IN  BigAdd(MulPow10(BigDigits(s, i, mid), j - mid), BigDigits(s, mid, j))

\* parseInt(s, 10): leading white space, an optional sign, then the longest
\* run of decimal digits, as a double; NaN when there is no digit.
parseInt(s) ==
    LET i == SkipSpaces(s, 1)
        j == PastSign(s, i)
        k == DigitsEnd(s, j)
    IN  IF k = j THEN NaN
        ELSE RoundDouble(SignAt(s, i), BigDigits(s, j, k), 0, FALSE)

\* Decimal exponents beyond this in size give 0 or an infinity whatever the
\* digits; the digits of an exponent are read up to it.
ExponentCap == 100000

RECURSIVE ExponentValue(_, _, _, _)
ExponentValue(s, i, j, acc) ==
    IF i >= j THEN acc
    ELSE ExponentValue(s, i + 1, j, Min(ExponentCap, 10 * acc + DigitValue[s[i]]))

InfinityChars == <<"I", "n", "f", "i", "n", "i", "t", "y">>

\* Whether s holds the characters w from index i on.
HasAt(s, i, w) == i + Len(w) - 1 <= Len(s) /\ SubSeq(s, i, i + Len(w) - 1) = w

\* Decimal numbers at or above 10^MaxDecimal are beyond the largest double,
\* those below 10^MinDecimal are nearer to 0 than to the smallest subnormal.
MaxDecimal == 310
MinDecimal == -330

\* The Number value of the longest StrDecimalLiteral at the start of s:
\* leading white space, an optional sign, then "Infinity" or digits with an
\* optional "." and an optional exponent; NaN when there is none.  The
\* result is the double nearest to the decimal value.
StringToNumber(s) ==
    LET i == SkipSpaces(s, 1)
        j == PastSign(s, i)
        sign == SignAt(s, i)
        k == DigitsEnd(s, j)
        m == IF k <= Len(s) /\ s[k] = "." THEN DigitsEnd(s, k + 1) ELSE k
        fracLen == IF m > k THEN m - (k + 1) ELSE 0
        q == PastSign(s, m + 1)
        r == DigitsEnd(s, q)
        exponent == IF m <= Len(s) /\ s[m] \in {"e", "E"} /\ r > q
                    THEN SignAt(s, m + 1) * ExponentValue(s, q, r, 0)
                    ELSE 0
        n == BigAdd(MulPow10(BigDigits(s, j, k), fracLen), BigDigits(s, k + 1, m))
        scale == exponent - fracLen
    IN  IF HasAt(s, j, InfinityChars) THEN Infinity(sign)
        ELSE IF k = j /\ fracLen = 0 THEN NaN
        ELSE IF n = <<>> THEN <<sign, <<>>, 0>>
        ELSE IF scale >= MaxDecimal THEN Infinity(sign)
        ELSE IF (m - j) + scale < MinDecimal THEN <<sign, <<>>, 0>>
        ELSE IF scale >= 0 THEN RoundDouble(sign, MulPow10(n, scale), 0, FALSE)
        ELSE Divide(sign, n, MulPow10(<<1>>, -scale), 0)

(***************************************************************************)
(* The upstream's catalog.                                                 *)
(***************************************************************************)

\* The variant lists of the products the upstream serves: 57.5 % off (57 in
\* doubles), 50 % off (the larger of two variants), and an inverted pair (no
\* discount).
Catalog ==
    << << [price |-> <<"1", "7">>, compareAtPrice |-> <<"4", "0">>] >>,
       << [price |-> <<"8", "0">>, compareAtPrice |-> <<"1", "0", "0">>],
          [price |-> <<"5", "0">>, compareAtPrice |-> <<"1", "0", "0">>] >>,
       << [price |-> <<"1", "0", "0">>, compareAtPrice |-> <<"8", "0">>] >> >>

CatalogVariants ==
    UNION {{Catalog[k][i] : i \in DOMAIN Catalog[k]} : k \in DOMAIN Catalog}

CatalogAmounts ==
    {<<"0">>} \cup UNION {{v[f] : f \in DOMAIN v} : v \in CatalogVariants}

(***************************************************************************)
(* Discount Calculator and Record Normalizer.                              *)
(* A raw variant is a record whose fields "price" and "compareAtPrice"     *)
(* hold the money object's amount string (Absent when the object has no    *)
(* amount); a missing field is a null money object.  A raw product node is *)
(* [id, variants]; "variants" may be missing.                              *)
(***************************************************************************)

\* v.price?.amount || "0"
AmountOf(v, f) == IF f \in DOMAIN v THEN OrDefault(v[f], <<"0">>) ELSE <<"0">>

\* productNode.variants?.nodes || []
VariantsOf(node) == IF "variants" \in DOMAIN node THEN node.variants ELSE <<>>

\* compare > price && compare > 0
Qualifies(price, compare) == Gt(compare, price) /\ Gt(compare, Zero)

\* Math.round(((compare - price) / compare) * 100), each operation rounded
\* to a double.
Percent(price, compare) ==
    MathRound(Times(Over(Minus(compare, price), compare), 100))

\* The doubles of the catalog's amounts and the percentages of its variants
\* are the same in every state: they are computed once and looked up, and
\* any other amount is computed where it is met.
CatalogNumber == [s \in CatalogAmounts |-> StringToNumber(s)]

CatalogPercent ==
    [pr \in {<<CatalogNumber[v.price], CatalogNumber[v.compareAtPrice]>> :
                v \in {w \in CatalogVariants :
                          Qualifies(CatalogNumber[w.price],
                                    CatalogNumber[w.compareAtPrice])}}
        |-> Percent(pr[1], pr[2])]

\* parseFloat(s)
parseFloat(s) ==
    IF s \in CatalogAmounts THEN CatalogNumber[s] ELSE StringToNumber(s)

\* const pct = Math.round(((compare - price) / compare) * 100)
Pct(price, compare) ==
    IF <<price, compare>> \in DOMAIN CatalogPercent
    THEN CatalogPercent[<<price, compare>>]
    ELSE Percent(price, compare)

\* One iteration of the loop over the variants: the new maxPct.
VariantStep(maxPct, v) ==
    LET price == parseFloat(AmountOf(v, "price"))
        compare == parseFloat(AmountOf(v, "compareAtPrice"))
        pct == Pct(price, compare)
    IN  IF Qualifies(price, compare)
        THEN (IF Gt(pct, maxPct) THEN pct ELSE maxPct)
        ELSE maxPct

RECURSIVE VariantLoop(_, _)
VariantLoop(variants, maxPct) ==
    IF variants = <<>> THEN maxPct
    ELSE VariantLoop(Tail(variants), VariantStep(maxPct, Head(variants)))

computeMaxDiscount(productNode) == VariantLoop(VariantsOf(productNode), Zero)

\* null in a field that otherwise holds a double.
NullNumber == <<Null>>

mapVariant(v) ==
    [price |-> parseFloat(AmountOf(v, "price")),
     compare_at_price |->
        IF "compareAtPrice" \in DOMAIN v
        THEN parseFloat(OrDefault(v.compareAtPrice, <<"0">>))
        ELSE NullNumber]

mapProduct(node) ==
    [id |-> node.id,
     variants |-> [i \in 1..Len(VariantsOf(node)) |-> mapVariant(VariantsOf(node)[i])],
     maxDiscount |-> computeMaxDiscount(node)]

(***************************************************************************)
(* Request parameters.                                                     *)
(***************************************************************************)
LimitMin == 1
LimitMax == 250
FactorMin == 1
FactorMax == 6
DefaultLimit == <<"5", "0">>
DefaultFactor == <<"2">>

\* Math.min(Math.max(parseInt(limitParam || "50", 10), 1), 250)
clampLimit(limitParam) ==
    IntegerOf(MathMin(MathMax(parseInt(OrDefault(limitParam, DefaultLimit)),
                              LimitMin), LimitMax))

\* Math.min(Math.max(parseInt(factorParam || "2", 10), 1), 6)
clampFactor(factorParam) ==
    IntegerOf(MathMin(MathMax(parseInt(OrDefault(factorParam, DefaultFactor)),
                              FactorMin), FactorMax))

(***************************************************************************)
(* Ranking: map, filter, sort, slice (handler, after collectCandidates).   *)
(***************************************************************************)
RECURSIVE Filter(_)
\* .filter(p => p.maxDiscount > 0)
Filter(ps) ==
    IF ps = <<>> THEN <<>>
    ELSE (IF Gt(Head(ps).maxDiscount, Zero) THEN <<Head(ps)>> ELSE <<>>)
            \o Filter(Tail(ps))

\* rawNodes.map(mapProduct)
MapProducts(nodes) == [i \in 1..Len(nodes) |-> mapProduct(nodes[i])]

\* The comparator (a, b) => b.maxDiscount - a.maxDiscount: positive when b
\* must come before a.
Compare(a, b) == Minus(b.maxDiscount, a.maxDiscount)

RECURSIVE InsertSortedUnstable(_, _)
InsertSortedUnstable(sorted, x) ==
    IF sorted = <<>> THEN <<x>>
    ELSE IF ~Gt(Zero, Compare(Head(sorted), x))
         THEN <<x>> \o sorted
         ELSE <<Head(sorted)>> \o InsertSortedUnstable(Tail(sorted), x)

RECURSIVE InsertSorted(_, _)
\* x goes after every element that does not compare greater than it, so
\* elements that compare equal (or whose difference is NaN) keep their
\* order: Array.prototype.sort is stable.
InsertSorted(sorted, x) ==
    IF sorted = <<>> THEN <<x>>
    ELSE IF Gt(Compare(Head(sorted), x), Zero)
         THEN <<x>> \o sorted
         ELSE <<Head(sorted)>> \o InsertSorted(Tail(sorted), x)

RECURSIVE SortFrom(_, _)
SortFrom(sorted, rest) ==
    IF rest = <<>> THEN sorted
    ELSE SortFrom(InsertSorted(sorted, Head(rest)), Tail(rest))

\* mapped.sort((a, b) => b.maxDiscount - a.maxDiscount)
Sort(ps) == SortFrom(<<>>, ps)

\* mapped.slice(0, limit): a NaN end is 0.
Slice(ps, lim) ==
    IF IsNaN(lim) THEN <<>> ELSE SubSeq(ps, 1, Min(Val(lim), Len(ps)))

rankSliceFirst(rawNodes, lim) == Sort(Slice(Filter(MapProducts(rawNodes)), lim))

\* mapped = rawNodes.map(mapProduct).filter(...); mapped.sort(...); top = mapped.slice(0, limit)
rank(rawNodes, lim) == Slice(Sort(Filter(MapProducts(rawNodes))), lim)

(***************************************************************************)
(* Responses and error messages.                                           *)
(***************************************************************************)
NoResponse == [status |-> 0]

OptionsResponse == [status |-> 204]

ErrorResponse(code, msg) == [status |-> code, error |-> msg]

\* `Shopify error: ${res.status} ${res.statusText} :: ${text}`
ShopifyError(res, text) ==
    <<"Shopify error: ", res.status, " ", res.statusText, " :: ", text>>

RECURSIVE StringifyItems(_, _)
StringifyItems(errors, i) ==
    IF i > Len(errors) THEN <<>>
    ELSE (IF i > 1 THEN <<",">> ELSE <<>>)
            \o <<"{\"message\":\"", errors[i].message, "\"}">>
            \o StringifyItems(errors, i + 1)

\* JSON.stringify(json.errors), errors an array of { message }.
JSONStringify(errors) == <<"[">> \o StringifyItems(errors, 1) \o <<"]">>

\* new Error(message)
Error(message) == [message |-> message]

InternalErrorGeneric(err) ==
    [status |-> 500, error |-> "Internal error", detail |-> <<"Internal error">>]

\* The catch block: status 500 with String(err.message || err).
InternalError(err) ==
    [status |-> 500, error |-> "Internal error",
     detail |-> IF err.message = <<>> THEN <<"Error">> ELSE err.message]

OkResponse(c, q, lim, fac, rawNodes) ==
    [status |-> 200,
     meta |-> [collection |-> OrNull(c), query |-> OrNull(q),
               limit |-> lim, factor |-> fac],
     products |-> rank(rawNodes, lim)]

(***************************************************************************)
(* The upstream: what a fetch can be answered with.                        *)
(***************************************************************************)
NoCursor == <<>>
NoValue == <<>>

PageKinds == UNION {[1..n -> 1..Len(Catalog)] : n \in 0..MaxPageSize}

\* The nodes of a page: product ids continue the upstream's numbering.
PageNodes(kinds, before) ==
    [i \in 1..Len(kinds) |-> [id |-> before + i, variants |-> Catalog[kinds[i]]]]

\* pageInfo.endCursor: null for an empty page, else a token for the page.
EndCursor(nodes, pageNo) == IF nodes = <<>> THEN NoCursor ELSE <<pageNo>>

\* products { pageInfo { hasNextPage endCursor } nodes { ... } }
Page(nodes, hasNextPage, endCursor) ==
    [pageInfo |-> [hasNextPage |-> hasNextPage, endCursor |-> endCursor],
     nodes |-> nodes]

OkResponses == {[ok |-> TRUE, status |-> "200", statusText |-> "OK"]}
FailedResponses == {[ok |-> FALSE, status |-> "502", statusText |-> "Bad Gateway"]}
Texts == {"", "down"}
ErrorLists == {<<[message |-> "Throttled"]>>}
NetworkErrors == {Error(<<"fetch failed">>)}
BodyErrors == {Error(<<"terminated">>)}

(***************************************************************************)
(* gqlFetch, collectCandidates and the handler.  The code between two      *)
(* awaits runs without interruption and every await gives way to other     *)
(* callbacks, so each action runs from one await (or the start) to the     *)
(* next await (or the response).  pc names the await:                      *)
(*   "fetch"      line 11, the request is with the upstream                *)
(*   "text"       line 20, reading the body of a response that is not ok   *)
(*   "json"       line 23, reading the body of an ok response              *)
(*   "data"       line 131 or 139, gqlFetch has returned json.data         *)
(*   "thrown"     line 131 or 139, gqlFetch has thrown                     *)
(*   "collected"  line 175, collectCandidates has returned out             *)
(*   "rejected"   line 175, collectCandidates has thrown                   *)
(***************************************************************************)

\* limit * factor
Target(lim, fac) ==
    IF IsNaN(lim) \/ IsNaN(fac) THEN NaN ELSE Int1(Val(lim) * Val(fac))

\* n < t; false when t is NaN.
Lt(n, t) == ~IsNaN(t) /\ n < Val(t)

LoopCondLe(hn, n, lim, fac) ==
    hn /\ ~IsNaN(Target(lim, fac)) /\ n <= Val(Target(lim, fac))

LoopCondIgnoresHasNext(hn, n, lim, fac) == Lt(n, Target(lim, fac))

\* The while condition: hasNext && out.length < limit * factor
LoopCond(hn, n, lim, fac) == hn /\ Lt(n, Target(lim, fac))

VariablesNoCursor(cur) == NoCursor

\* The cursor variable of the next request: { handle | query, cursor }
Variables(cur) == cur

\* The top of the loop with the locals (o, hn, cur): call gqlFetch, which
\* issues the fetch and suspends at line 11, or return out.
Loop(lim, fac, o, hn, cur) ==
    /\ out' = o
    /\ hasNext' = hn
    /\ cursor' = cur
    /\ pending' = NoValue
    /\ IF LoopCond(hn, Len(o), lim, fac)
       THEN /\ pc' = "fetch"
            /\ sent' = Append(sent, Variables(cur))
            /\ inflight' = inflight \cup {Len(sent) + 1}
       ELSE /\ pc' = "collected"
            /\ sent' = sent
            /\ inflight' = inflight

Finish(r) ==
    /\ pc' = "done"
    /\ response' = r

Methods == {"GET", "OPTIONS", "POST"}
Handles == {Undefined, "", "shoes"}
Terms == {Undefined, "", "sale"}
LimitParams == {Absent, <<>>, <<"0">>, <<"1">>, <<"2">>, <<"x">>}
FactorParams == {Absent, <<"x">>}

\* handler(req, res) up to its first await or its response.
handler(m, c, q, limitParam, factorParam) ==
    /\ pc = "idle"
    /\ method' = m
    /\ UNCHANGED <<configured, returned, served, last, arg, ret>>
    /\ IF m = "OPTIONS"
       THEN /\ Finish(OptionsResponse)
            /\ UNCHANGED <<collection, query, limit, factor, out, hasNext,
                           cursor, pending, inflight, sent>>
       ELSE IF m # "GET"
       THEN /\ Finish(ErrorResponse(405, "Method not allowed"))
            /\ UNCHANGED <<collection, query, limit, factor, out, hasNext,
                           cursor, pending, inflight, sent>>
       ELSE IF ~configured
       THEN /\ Finish(ErrorResponse(500, "Missing Shopify env vars"))
            /\ UNCHANGED <<collection, query, limit, factor, out, hasNext,
                           cursor, pending, inflight, sent>>
       ELSE /\ collection' = OrNull(c)
            /\ query' = OrNull(q)
            /\ limit' = clampLimit(limitParam)
            /\ factor' = clampFactor(factorParam)
            /\ IF ~Truthy(c) /\ ~Truthy(q)
               THEN /\ Finish(ErrorResponse(400, "Provide ?collection=handle or ?query=term"))
                    /\ UNCHANGED <<out, hasNext, cursor, pending, inflight, sent>>
               ELSE /\ Loop(clampLimit(limitParam), clampFactor(factorParam),
                            <<>>, TRUE, NoCursor)
                    /\ response' = response

\* gqlFetch, line 11 resolves with the response `res`: on to reading its body.
gqlFetchResponse(res) ==
    /\ pc = "fetch"
    /\ inflight' = inflight \ {Len(sent)}
    /\ pending' = res
    /\ pc' = IF res.ok THEN "json" ELSE "text"
    /\ UNCHANGED <<configured, method, collection, query, limit, factor, out,
                   hasNext, cursor, sent, returned, served, last, response,
                   arg, ret>>

\* gqlFetch, line 11 rejects (no response at all): gqlFetch throws the error.
gqlFetchRejects(err) ==
    /\ pc = "fetch"
    /\ inflight' = inflight \ {Len(sent)}
    /\ pending' = err
    /\ pc' = "thrown"
    /\ last' = [kind |-> "error", message |-> err.message]
    /\ UNCHANGED <<configured, method, collection, query, limit, factor, out,
                   hasNext, cursor, sent, returned, served, response, arg, ret>>

\* gqlFetch, lines 20-21: the body text is read and the error thrown.
gqlFetchText(text) ==
    /\ pc = "text"
    /\ pending' = Error(ShopifyError(pending, text))
    /\ pc' = "thrown"
    /\ last' = [kind |-> "error", message |-> ShopifyError(pending, text)]
    /\ UNCHANGED <<configured, method, collection, query, limit, factor, out,
                   hasNext, cursor, inflight, sent, returned, served, response,
                   arg, ret>>

\* gqlFetch, lines 23-25: the body is read; throw on json.errors, else
\* return json.data.
gqlFetchJson(json) ==
    /\ pc = "json"
    /\ IF "errors" \in DOMAIN json
       THEN /\ pending' = Error(JSONStringify(json.errors))
            /\ pc' = "thrown"
       ELSE /\ pending' = json.data
            /\ pc' = "data"
    /\ UNCHANGED <<configured, method, collection, query, limit, factor, out,
                   hasNext, cursor, inflight, sent, response, arg, ret>>

\* gqlFetch, line 20 or 23: reading the body fails (the connection drops,
\* the body is not JSON), and gqlFetch throws the error.
gqlFetchBodyRejects(err) ==
    /\ pc \in {"text", "json"}
    /\ pending' = err
    /\ pc' = "thrown"
    /\ last' = [kind |-> "error", message |-> err.message]
    /\ UNCHANGED <<configured, method, collection, query, limit, factor, out,
                   hasNext, cursor, inflight, sent, returned, served, response,
                   arg, ret>>

\* The upstream answers with its next page of products.
PageBody(kinds, hasNextPage, inCollection) ==
    /\ Len(returned) < MaxPages
    /\ (Len(returned) + 1 = MaxPages => ~hasNextPage)
    /\ LET nodes == PageNodes(kinds, Len(served))
           endCursor == EndCursor(nodes, Len(returned) + 1)
           page == Page(nodes, hasNextPage, endCursor)
       IN  /\ served' = served \o nodes
           /\ returned' = Append(returned, page.pageInfo)
           /\ last' = [kind |-> "page"]
           /\ gqlFetchJson(IF inCollection
                           THEN [data |-> [collectionByHandle |-> [products |-> page]]]
                           ELSE [data |-> [products |-> page]])

\* The answer to COLLECTION_QUERY for a handle that resolves.
CollectionPageBody(kinds, hasNextPage) ==
    /\ Truthy(collection)
    /\ PageBody(kinds, hasNextPage, TRUE)

\* The answer to SEARCH_QUERY.
SearchPageBody(kinds, hasNextPage) ==
    /\ ~Truthy(collection)
    /\ PageBody(kinds, hasNextPage, FALSE)

\* The answer to COLLECTION_QUERY for a handle that does not resolve:
\* collectionByHandle is null.
NotFoundBody ==
    /\ Truthy(collection)
    /\ last' = [kind |-> "notfound"]
    /\ UNCHANGED <<returned, served>>
    /\ gqlFetchJson([data |-> <<>>])

\* An answer with query-level errors.
ErrorsBody(errors) ==
    /\ last' = [kind |-> "error", message |-> JSONStringify(errors)]
    /\ UNCHANGED <<returned, served>>
    /\ gqlFetchJson([errors |-> errors])

BreakThrows ==
    /\ pc' = "thrown"
    /\ pending' = Error(<<"Cannot read properties of null (reading 'products')">>)
    /\ UNCHANGED <<out, hasNext, cursor, sent, inflight>>

\* `if (!col) break;` and `return out;`
Break ==
    /\ pc' = "collected"
    /\ pending' = NoValue
    /\ UNCHANGED <<out, hasNext, cursor, sent, inflight>>

\* out.push(...page.nodes); hasNext and cursor from page.pageInfo; and round
\* the loop.
PushPage(page) ==
    Loop(limit, factor, out \o page.nodes,
         page.pageInfo.hasNextPage, page.pageInfo.endCursor)

\* collectCandidates resumes at line 131 with data.
collectCollection ==
    /\ pc = "data"
    /\ Truthy(collection)
    /\ IF "collectionByHandle" \notin DOMAIN pending
       THEN Break
       ELSE PushPage(pending.collectionByHandle.products)
    /\ UNCHANGED <<configured, method, collection, query, limit, factor,
                   returned, served, last, response, arg, ret>>

\* collectCandidates resumes at line 139 with data.
collectSearch ==
    /\ pc = "data"
    /\ ~Truthy(collection)
    /\ PushPage(pending.products)
    /\ UNCHANGED <<configured, method, collection, query, limit, factor,
                   returned, served, last, response, arg, ret>>

\* collectCandidates resumes at line 131 or 139 with the error gqlFetch
\* threw; nothing catches it there, so collectCandidates throws it on.
collectThrows ==
    /\ pc = "thrown"
    /\ pc' = "rejected"
    /\ UNCHANGED <<configured, method, collection, query, limit, factor, out,
                   hasNext, cursor, pending, inflight, sent, returned, served,
                   last, response, arg, ret>>

\* The handler resumes at line 175 with rawNodes: lines 176-183.
handlerRespond ==
    /\ pc = "collected"
    /\ Finish(OkResponse(collection, query, limit, factor, out))
    /\ UNCHANGED <<configured, method, collection, query, limit, factor, out,
                   hasNext, cursor, pending, inflight, sent, returned, served,
                   last, arg, ret>>

\* The handler resumes at line 175 with the error: the catch block.
handlerCatch ==
    /\ pc = "rejected"
    /\ Finish(InternalError(pending))
    /\ pending' = NoValue
    /\ UNCHANGED <<configured, method, collection, query, limit, factor, out,
                   hasNext, cursor, inflight, sent, returned, served, last,
                   arg, ret>>

Idle ==
    /\ method = Undefined
    /\ collection = Undefined
    /\ query = Undefined
    /\ limit = NaN
    /\ factor = NaN
    /\ out = <<>>
    /\ hasNext = TRUE
    /\ cursor = NoCursor
    /\ pending = NoValue
    /\ inflight = {}
    /\ sent = <<>>
    /\ returned = <<>>
    /\ served = <<>>
    /\ last = [kind |-> "none"]
    /\ response = NoResponse

Init ==
    /\ pc = "idle"
    /\ configured \in BOOLEAN
    /\ Idle
    /\ arg = <<>>
    /\ ret = <<>>

Request ==
    \E m \in Methods, c \in Handles, q \in Terms,
       limitParam \in LimitParams, factorParam \in FactorParams :
        handler(m, c, q, limitParam, factorParam)

FetchResolves == \E res \in OkResponses \cup FailedResponses : gqlFetchResponse(res)

FetchRejects == \E err \in NetworkErrors : gqlFetchRejects(err)

TextRead == \E text \in Texts : gqlFetchText(text)

BodyRejects == \E err \in BodyErrors : gqlFetchBodyRejects(err)

CollectionPageRead ==
    \E kinds \in PageKinds, hasNextPage \in BOOLEAN :
        CollectionPageBody(kinds, hasNextPage)

SearchPageRead ==
    \E kinds \in PageKinds, hasNextPage \in BOOLEAN :
        SearchPageBody(kinds, hasNextPage)

ErrorsRead == \E errors \in ErrorLists : ErrorsBody(errors)

\* The upstream answers the fetch and delivers the body.
Upstream ==
    \/ FetchRejects
    \/ FetchResolves
    \/ TextRead
    \/ BodyRejects
    \/ pc = "json" /\ (ErrorsRead \/ NotFoundBody \/ CollectionPageRead \/ SearchPageRead)

\* collectCandidates runs on when gqlFetch has returned or thrown.
Resume ==
    \/ collectThrows
    \/ collectCollection
    \/ collectSearch

Next ==
    \/ Request
    \/ FetchResolves
    \/ FetchRejects
    \/ TextRead
    \/ BodyRejects
    \/ CollectionPageRead
    \/ SearchPageRead
    \/ NotFoundBody
    \/ ErrorsRead
    \/ collectCollection
    \/ collectSearch
    \/ collectThrows
    \/ handlerRespond
    \/ handlerCatch

Spec == Init /\ [][Next]_vars

\* The upstream answers every fetch, every body read ends, and the event
\* loop runs the continuation of collectCandidates when it is ready.
FairSpec == Spec /\ WF_vars(Upstream) /\ WF_vars(Resume)

(***************************************************************************)
(* The pure functions on their own: the argument is drawn in the initial   *)
(* state and one step applies the function.                                *)
(***************************************************************************)
ParamChars == {"0", "2", "7", "-", "x", " ", "\t"}

ParamStrings ==
    {Absent} \cup UNION {[1..n -> ParamChars] : n \in 0..MaxParamLen}

InitParams ==
    /\ pc = "call"
    /\ configured = TRUE
    /\ Idle
    /\ arg \in [name : {"limit", "factor"}, value : ParamStrings]
    /\ ret = <<>>

\* const limit = ...; const factor = ...;
ClampParam ==
    /\ pc = "call"
    /\ arg.name \in {"limit", "factor"}
    /\ ret' = IF arg.name = "limit" THEN clampLimit(arg.value)
                                    ELSE clampFactor(arg.value)
    /\ pc' = "return"
    /\ UNCHANGED <<configured, arg>>
    /\ UNCHANGED handlerVars

NextParams == ClampParam

SpecParams == InitParams /\ [][NextParams]_vars

\* Amount strings of the raw variants: missing, "", "0.5", "17", "40", "x".
Amounts == {Absent, <<>>, <<"0", ".", "5">>, <<"1", "7">>, <<"4", "0">>, <<"x">>}

\* A null money object.
NoMoney == <<Null>>

\* A raw variant; a null money object leaves the field out.
RawVariant(p, c) ==
    [f \in {g \in {"price", "compareAtPrice"} :
               IF g = "price" THEN p # NoMoney ELSE c # NoMoney}
        |-> IF f = "price" THEN p ELSE c]

RawVariants ==
    {RawVariant(p, c) : p \in Amounts \cup {NoMoney}, c \in Amounts \cup {NoMoney}}

RawNodes ==
    {[id |-> 1]} \cup
    {[id |-> 1, variants |-> vs] :
        vs \in UNION {[1..n -> RawVariants] : n \in 0..MaxVariants}}

InitDiscount ==
    /\ pc = "call"
    /\ configured = TRUE
    /\ Idle
    /\ arg \in RawNodes
    /\ ret = <<>>

\* rawNodes.map(mapProduct), one node.
Normalize ==
    /\ pc = "call"
    /\ "id" \in DOMAIN arg
    /\ ret' = mapProduct(arg)
    /\ pc' = "return"
    /\ UNCHANGED <<configured, arg>>
    /\ UNCHANGED handlerVars

NextDiscount == Normalize

SpecDiscount == InitDiscount /\ [][NextDiscount]_vars

(***************************************************************************)
(* Properties.                                                             *)
(***************************************************************************)
Count(seq, x) == Cardinality({i \in DOMAIN seq : seq[i] = x})

Numeric == ~IsNaN(limit) /\ ~IsNaN(factor)

Succeeded == pc = "done" /\ response.status = 200

\* Position in `out` of the candidate a product was normalized from.
PosOf(p) == CHOOSE k \in DOMAIN out : out[k].id = p.id

\* The nodes of the page that gqlFetch has returned and collectCandidates
\* has not yet pushed.
PendingNodes ==
    IF pc # "data" THEN <<>>
    ELSE IF "products" \in DOMAIN pending THEN pending.products.nodes
    ELSE IF "collectionByHandle" \in DOMAIN pending
         THEN pending.collectionByHandle.products.nodes
    ELSE <<>>

\* C1: a GET request with valid configuration that supplies neither or both
\* of collection and query gets status 400, and no page fetch is issued
\* (stated for requests whose limit and factor are well-formed numbers).
C1_ExactlyOneRequired ==
    (pc # "idle" /\ method = "GET" /\ configured /\ Numeric
        /\ Truthy(collection) = Truthy(query))
    => /\ sent = <<>>
       /\ pc = "done"
       /\ response.status = 400

\* C2: whatever the parameter text, the limit is an integer in [1,250] (50
\* when absent) and the factor an integer in [1,6] (2 when absent).
C2_ParamsClamped ==
    pc = "return"
    => /\ ~IsNaN(ret)
       /\ arg.name = "limit"
          => Val(ret) \in 1..250 /\ (arg.value = Absent => Val(ret) = 50)
       /\ arg.name = "factor"
          => Val(ret) \in 1..6 /\ (arg.value = Absent => Val(ret) = 2)

\* C3: a fetch is issued only while fewer than limit * factor candidates are
\* collected, so the collected count stays below limit * factor plus one
\* page (and is zero when limit * factor is not a number); the candidates are
\* exactly the nodes the upstream returned, in the order received.
C3_BoundedOvershoot ==
    /\ out \o PendingNodes = served
    /\ pc \in {"fetch", "text", "json"}
       => Numeric /\ Len(out) < Val(limit) * Val(factor)
    /\ IF Numeric
       THEN Len(out) < Val(limit) * Val(factor) + MaxPageSize
       ELSE out = <<>> /\ sent = <<>>

C3_Witness ==
    /\ Succeeded
    /\ Numeric
    /\ Len(returned) = 2
    /\ Len(out) > Val(limit) * Val(factor)

\* C4: no fetch is issued after a page with hasNextPage = false, in either
\* query shape, and from every fetch collectCandidates goes on to return
\* (or to throw): the loop terminates.
C4_StopsWhenExhausted ==
    /\ [](\A k \in DOMAIN returned : ~returned[k].hasNextPage => Len(sent) <= k)
    /\ (pc = "fetch") ~> (pc \in {"collected", "rejected"})

C4_Witness ==
    /\ Succeeded
    /\ Numeric
    /\ Len(returned) = 2
    /\ ~returned[2].hasNextPage
    /\ Len(sent) = 2
    /\ Len(out) < Val(limit) * Val(factor)

\* C5: a failed page fetch, first or later, fails the request: the error
\* travels to the handler unchanged, the only response is status 500 with
\* the underlying message and no products, and no fetch follows (no retry).
C5_FetchFailureFailsRequest ==
    last.kind = "error"
    => /\ pc \in {"thrown", "rejected", "done"}
       /\ pc # "done" => pending = Error(last.message) /\ response = NoResponse
       /\ pc = "done"
          => /\ response.status = 500
             /\ response.error = "Internal error"
             /\ "detail" \in DOMAIN response /\ response.detail = last.message
             /\ "products" \notin DOMAIN response
       /\ inflight = {}
       /\ Len(sent) = Len(returned) + 1

C5_Witness ==
    /\ last.kind = "error"
    /\ pc = "done"
    /\ response.status = 500
    /\ Len(returned) = 1
    /\ \E i \in DOMAIN out : Gt(computeMaxDiscount(out[i]), Zero)

\* C6 as claimed: a collection fetch that resolves to not found ends the
\* loop with no further fetch, and the response is status 200 with an empty
\* products array.
C6_NotFoundEmpty ==
    last.kind = "notfound"
    => /\ pc \in {"data", "collected", "done"}
       /\ inflight = {}
       /\ Len(sent) = Len(returned) + 1
       /\ pc = "done"
          => /\ response.status = 200
             /\ response.products = <<>>

\* C6 amended: a collection fetch that resolves to not found ends the loop
\* with no further fetch and the response is status 200; the products are
\* the ranking of the candidates of the pages fetched before it, so the
\* array is empty when the first fetch resolves to not found.
C6_NotFoundKeepsCollected ==
    last.kind = "notfound"
    => /\ pc \in {"data", "collected", "done"}
       /\ inflight = {}
       /\ Len(sent) = Len(returned) + 1
       /\ pc = "done"
          => /\ response.status = 200
             /\ \A i \in DOMAIN response.products :
                   /\ Gt(response.products[i].maxDiscount, Zero)
                   /\ \E k \in DOMAIN served :
                         response.products[i] = mapProduct(served[k])
             /\ Len(response.products) =
                   Min(Val(limit),
                       Cardinality({k \in DOMAIN served :
                                       Gt(computeMaxDiscount(served[k]), Zero)}))
             /\ returned = <<>> => response.products = <<>>

C6_Witness ==
    /\ last.kind = "notfound"
    /\ pc = "done"
    /\ returned = <<>>
    /\ response.status = 200
    /\ response.products = <<>>

\* C7: the products of a successful response are in descending order of
\* maxDiscount, and products with equal maxDiscount are in the order in
\* which they were aggregated.
C7_SortedStable ==
    Succeeded
    => \A i, j \in DOMAIN response.products :
          i < j =>
            /\ ~Gt(response.products[j].maxDiscount, response.products[i].maxDiscount)
            /\ response.products[i].maxDiscount = response.products[j].maxDiscount
               => PosOf(response.products[i]) < PosOf(response.products[j])

C7_Witness ==
    /\ Succeeded
    /\ \E i, j \in DOMAIN response.products :
          /\ i < j
          /\ response.products[i].maxDiscount = response.products[j].maxDiscount
    /\ \E i, j \in DOMAIN response.products :
          /\ i < j
          /\ PosOf(response.products[i]) > PosOf(response.products[j])

RECURSIVE Pow10(_)
Pow10(k) == IF k = 0 THEN 1 ELSE 10 * Pow10(k - 1)

\* The decimal number an amount string denotes, as <<numerator,
\* denominator>>; NaN when it has no digits.
DecimalOf(s) ==
    LET i == SkipSpaces(s, 1)
        j == PastSign(s, i)
        k == DigitsEnd(s, j)
        m == IF k <= Len(s) /\ s[k] = "." THEN DigitsEnd(s, k + 1) ELSE k
        fracLen == IF m > k THEN m - (k + 1) ELSE 0
    IN  IF k = j /\ fracLen = 0 THEN NaN
        ELSE <<SignAt(s, i) * ToInt(BigAdd(MulPow10(BigDigits(s, j, k), fracLen),
                                           BigDigits(s, k + 1, m))),
               Pow10(fracLen)>>

\* The amount of a variant as C8 reads it: 0 when missing.
AmountValue(v, f) ==
    IF f \notin DOMAIN v \/ v[f] = Absent \/ v[f] = <<>> THEN <<0, 1>>
    ELSE DecimalOf(v[f])

\* x > y on decimal numbers; false when either is not a number.
DecimalGt(x, y) == ~IsNaN(x) /\ ~IsNaN(y) /\ x[1] * y[2] > y[1] * x[2]

\* round((compare - price) / compare * 100) on the decimal numbers
\* themselves, halves upward.
RoundedPct(price, compare) ==
    LET n == 100 * (compare[1] * price[2] - price[1] * compare[2])
        d == compare[1] * price[2]
    IN  (2 * n + d) \div (2 * d)

\* What C8 states, computed from the variant list as a set.
Contributions(node) ==
    LET vs == IF "variants" \in DOMAIN node THEN node.variants ELSE <<>>
    IN  {RoundedPct(AmountValue(vs[i], "price"), AmountValue(vs[i], "compareAtPrice")) :
            i \in {k \in DOMAIN vs :
                      /\ DecimalGt(AmountValue(vs[k], "compareAtPrice"),
                                   AmountValue(vs[k], "price"))
                      /\ DecimalGt(AmountValue(vs[k], "compareAtPrice"), <<0, 1>>)}}

\* C8: maxDiscount is a non-negative integer, the largest rounded percentage
\* over the variants with compare-at > price and compare-at > 0, and 0 when
\* no variant qualifies or the list is empty or missing; a missing amount
\* counts as 0.
C8_MaxDiscount ==
    pc = "return"
    => /\ IsFinite(ret.maxDiscount)
       /\ ret.maxDiscount[1] = 1 /\ ret.maxDiscount[3] >= 0
       /\ \A d \in Contributions(arg) : ~Gt(FromInt(d), ret.maxDiscount)
       /\ IF Contributions(arg) = {}
          THEN ret.maxDiscount = Zero
          ELSE \E d \in Contributions(arg) : ret.maxDiscount = FromInt(d)

\* C9: at most one fetch is outstanding, a fetch is issued only after the
\* one before it has returned, the first fetch carries no cursor, and every
\* later fetch carries the endCursor of the page just before it.
C9_Sequential ==
    /\ Cardinality(inflight) = (IF pc = "fetch" THEN 1 ELSE 0)
    /\ Len(sent) <= Len(returned) + 1
    /\ pc = "fetch" => Len(sent) = Len(returned) + 1
    /\ \A k \in DOMAIN sent :
          IF k = 1 THEN sent[k] = NoCursor
                   ELSE sent[k] = returned[k - 1].endCursor

C9_Witness ==
    /\ pc = "fetch"
    /\ Len(sent) = 2
    /\ sent[2] # NoCursor
    /\ inflight = {2}

\* C10: a successful response holds exactly min(limit, D) products, D the
\* number of collected candidates with maxDiscount > 0 (none when limit is
\* not a number, where nothing is collected); each has maxDiscount > 0 and
\* is the normalization of its own candidate; no candidate left out has a
\* larger maxDiscount than a returned product.
C10_TopSelection ==
    Succeeded
    => LET C == MapProducts(out)
           P == response.products
           D == Cardinality({k \in DOMAIN C : Gt(C[k].maxDiscount, Zero)})
       IN  /\ Len(P) = (IF IsNaN(limit) THEN 0 ELSE Min(Val(limit), D))
           /\ IsNaN(limit) => D = 0
           /\ \A i \in DOMAIN P :
                 /\ Gt(P[i].maxDiscount, Zero)
                 /\ Count(P, P[i]) <= Count(C, P[i])
           /\ \A k \in DOMAIN C :
                 Count(C, C[k]) > Count(P, C[k])
                 => \A i \in DOMAIN P : ~Gt(C[k].maxDiscount, P[i].maxDiscount)

C10_Witness ==
    /\ Succeeded
    /\ Numeric
    /\ Cardinality({k \in DOMAIN out : Gt(computeMaxDiscount(out[k]), Zero)}) > Val(limit)
    /\ \E k \in DOMAIN out : computeMaxDiscount(out[k]) = Zero
    /\ \E i, j \in DOMAIN response.products :
          response.products[i].maxDiscount # response.products[j].maxDiscount

====

